---- MODULE Spec2Model ----
(***************************************************************************)
(* HoverReader: the word tooltip cache, the tooltip resolver, the hover    *)
(* handlers of a page overlay and the per-upload page pipeline, as state   *)
(* machines.  Strings are sequences of UTF-16 code units (numbers), so     *)
(* that the regular expressions of the source are range tests here.        *)
(***************************************************************************)
EXTENDS Integers, Sequences, FiniteSets, Bags, TLC

(***************************************************************************)
(* Bounds of the model.                                                    *)
(***************************************************************************)
\* capacity of the WordCache of the unit calls (the program constructs
\* WORD_CACHE with 1000)
Limit == 2
\* capacity of WORD_CACHE under the page overlays
HoverLimit == 1
\* translation calls that may be pending at the same time
MaxPending == 2
\* number of WordCache operations recorded in the operation log
MaxOps == 4

(***************************************************************************)
(* Code units named by the source's regular expressions.                   *)
(***************************************************************************)
HAMZA == 1569
ALEF_MADDA == 1570
ALEF_HAMZA_ABOVE == 1571
WAW_HAMZA == 1572
ALEF_HAMZA_BELOW == 1573
YEH_HAMZA == 1574
ALEF == 1575
BEH == 1576
TEH_MARBUTA == 1577
TATWEEL == 1600
HEH == 1607
ALEF_MAKSURA == 1609
YEH == 1610
FATHA == 1614
SPACE == 32
COMMA == 44
LATIN_R == 114
LATIN_S == 115

EmptyString == << >>

(***************************************************************************)
(* State.                                                                  *)
(***************************************************************************)
VARIABLES
    cache,          \* WORD_CACHE.map
    limit,          \* WORD_CACHE.limit
    pending,        \* the bag of getWordTooltip calls awaiting translateAPI
    lexicon,        \* the lexicon state of App
    pointer,        \* where the mouse pointer is: a word box of a page, or none
    hover,          \* per PageOverlay: the hover state (with the word it stands for)
    lastHoverWord,  \* per PageOverlay: lastHoverWord.current
    hoverTip,       \* the hoverTip state of App: the tooltip of the DOCX view
    ret,            \* what the getWordTooltip part run by the last step ended with
    ops,            \* the cache and translation calls made by the last step
    log,            \* the WordCache calls made so far (calls of the units only)
    firstTip,       \* per cached word: the text its entry was created with
    pages,          \* the pages state of App: the visible page list
    busy,           \* the busy state of App
    globalError,    \* the globalError state of App
    docxMode,       \* the docxMode state of App (as rendered: the DOCX container
                    \* is mounted when it is TRUE)
    runs,           \* per handleFile invocation: where it is and its locals
    net,            \* the requests in flight: pdf.js calls and OCR fetches
    latest,         \* the handleFile invocation started last (0: none)
    proxy,          \* the /api/ocr-space handler: where it is, its locals, its reply
    translator,     \* the /api/translate handler: where it is, its calls, its reply
    calc            \* the last call of a pure function: its input and its result


\* the characters matched by \s, which are also the ones trim() strips
IsSpace(c) ==
    \/ c \in {9, 10, 11, 12, 13, 32, 160, 5760, 8232, 8233, 8239, 8287, 12288, 65279}
    \/ (c >= 8192 /\ c <= 8202)

\* the class [0610-061A 064B-065F 06D6-06ED] of stripDiacritics
IsDiacritic(c) ==
    \/ (c >= 1552 /\ c <= 1562)
    \/ (c >= 1611 /\ c <= 1631)
    \/ (c >= 1750 /\ c <= 1773)

\* the class [0600-06FF]
InArabicBlock(c) == c >= 1536 /\ c <= 1791

\* !s || !s.trim()
IsBlank(s) == \A i \in 1..Len(s) : IsSpace(s[i])

\* String.prototype.trim
RECURSIVE TrimLeft(_)
TrimLeft(s) ==
    IF s = << >> THEN << >>
    ELSE IF IsSpace(Head(s)) THEN TrimLeft(Tail(s)) ELSE s

RECURSIVE TrimRight(_)
TrimRight(s) ==
    IF s = << >> THEN << >>
    ELSE IF IsSpace(s[Len(s)]) THEN TrimRight(SubSeq(s, 1, Len(s) - 1)) ELSE s

Trim(s) == TrimRight(TrimLeft(s))

\* replace(/[class]/g, "") drops the matching code units
stripDiacritics(s) == SelectSeq(s, LAMBDA c : ~IsDiacritic(c))

NormalizeLetter_Swapping(c) ==
    IF c \in {ALEF_HAMZA_BELOW, ALEF_HAMZA_ABOVE, ALEF_MADDA, ALEF} THEN ALEF
    ELSE IF c = ALEF_MAKSURA THEN YEH
    ELSE IF c = YEH THEN ALEF_MAKSURA
    ELSE IF c = TEH_MARBUTA THEN HEH
    ELSE IF c \in {WAW_HAMZA, YEH_HAMZA} THEN HAMZA
    ELSE c

NormalizeLetter(c) ==
    IF c \in {ALEF_HAMZA_BELOW, ALEF_HAMZA_ABOVE, ALEF_MADDA, ALEF} THEN ALEF
    ELSE IF c = ALEF_MAKSURA THEN YEH
    ELSE IF c = TEH_MARBUTA THEN HEH
    ELSE IF c \in {WAW_HAMZA, YEH_HAMZA} THEN HAMZA
    ELSE c

NotArabicNorSpace(c) == ~InArabicBlock(c) /\ ~IsSpace(c)

IsTatweel(c) == c = TATWEEL

\* the four letter replacements map code units; the last two drop them
normalizeArabic(s) ==
    LET letters == [i \in 1..Len(s) |-> NormalizeLetter(s[i])]
        noTatweel == SelectSeq(letters, LAMBDA c : ~IsTatweel(c))
    IN  SelectSeq(noTatweel, LAMBDA c : ~NotArabicNorSpace(c))

(***************************************************************************)
(* WordCache: a JavaScript Map, kept as the sequence of its entries in     *)
(* insertion order (the order Map.keys() iterates in).                     *)
(***************************************************************************)
MapHas(m, k) == \E i \in 1..Len(m) : m[i].key = k

MapGet(m, k) == (CHOOSE i \in 1..Len(m) : m[i].key = k)

MapDelete(m, k) == SelectSeq(m, LAMBDA e : e.key # k)

\* Map.prototype.set: a present key keeps its position, a new key goes last
MapSet(m, k, v) ==
    IF MapHas(m, k)
    THEN [i \in 1..Len(m) |-> IF m[i].key = k THEN [key |-> k, val |-> v] ELSE m[i]]
    ELSE Append(m, [key |-> k, val |-> v])

MapKeys(m) == [i \in 1..Len(m) |-> m[i].key]

WordCacheGet_NoBump(m, k) ==
    IF ~MapHas(m, k)
    THEN [hit |-> FALSE, val |-> EmptyString, map |-> m]
    ELSE [hit |-> TRUE, val |-> m[MapGet(m, k)].val, map |-> m]

\* WordCache.get: hit is FALSE for the null result
WordCacheGet(m, k) ==
    IF ~MapHas(m, k)
    THEN [hit |-> FALSE, val |-> EmptyString, map |-> m]
    ELSE LET val == m[MapGet(m, k)].val
         IN  [hit |-> TRUE, val |-> val, map |-> MapSet(MapDelete(m, k), k, val)]

WordCacheSet_NoEvict(m, k, v) ==
    MapSet(IF MapHas(m, k) THEN MapDelete(m, k) ELSE m, k, v)

\* WordCache.set
WordCacheSet(m, k, v) ==
    LET m1 == IF MapHas(m, k) THEN MapDelete(m, k) ELSE m
        m2 == MapSet(m1, k, v)
    IN  IF Len(m2) > limit THEN MapDelete(m2, m2[1].key) ELSE m2

(***************************************************************************)
(* The lexicon: the object useLexicon builds, a map from form and lemma    *)
(* keys to rows.  A row's glosses may be missing.                          *)
(***************************************************************************)
GlossR == <<LATIN_R>>
GlossS == <<LATIN_S>>

Row(glosses) == [hasGlosses |-> TRUE, glosses |-> glosses]
RowWithoutGlosses == [hasGlosses |-> FALSE, glosses |-> << >>]

\* useState({}) : the lexicon before /lexicon-lite.json has been loaded
LexiconEmpty == [k \in {} |-> RowWithoutGlosses]

LexiconForms ==
    (<<ALEF_HAMZA_ABOVE>> :> Row(<<GlossR>>))
    @@ (<<ALEF, FATHA>> :> Row(<<GlossS>>))
    @@ (<<SPACE>> :> Row(<<GlossR, GlossS>>))

LexiconLemmas ==
    (<<ALEF>> :> Row(<<GlossR, GlossS>>))
    @@ (<<BEH>> :> RowWithoutGlosses)

LoadedLexicons == {LexiconForms, LexiconLemmas}

\* the lexicon-lite.json the page overlays' App loads
HoverLexicons == {LexiconForms}

Lexicons == {LexiconEmpty} \cup LoadedLexicons

\* Array.prototype.join(", ")
RECURSIVE Join(_)
Join(glosses) ==
    IF glosses = << >> THEN EmptyString
    ELSE IF Len(glosses) = 1 THEN glosses[1]
    ELSE glosses[1] \o <<COMMA, SPACE>> \o Join(Tail(glosses))

\* (entry.glosses || []).join(", ")
GlossText(entry) == Join(IF entry.hasGlosses THEN entry.glosses ELSE << >>)

Candidates_StrippedLast(arWord) ==
    << arWord,
       normalizeArabic(arWord),
       normalizeArabic(stripDiacritics(arWord)),
       stripDiacritics(arWord) >>

\* the lookup candidates of getWordTooltip, in the order it tries them
Candidates(arWord) ==
    << arWord,
       stripDiacritics(arWord),
       normalizeArabic(arWord),
       normalizeArabic(stripDiacritics(arWord)) >>

\* the candidates for which lexicon[c] is an entry
LexiconHits(arWord, lex) ==
    {i \in 1..4 : Candidates(arWord)[i] \in DOMAIN lex}

Min(S) == CHOOSE x \in S : \A y \in S : x <= y

(***************************************************************************)
(* translateAPI: what the fetch of /api/translate ends with, and what      *)
(* translateAPI makes of it.                                               *)
(***************************************************************************)
Reply(kind, text) == [kind |-> kind, text |-> text]

\* reject: fetch rejects; http: r.ok is false; nojson: r.json() rejects;
\* object: {translatedText: text}; array: [{translatedText: text}];
\* other: any other JSON value
TranslateReplies ==
    { Reply("reject", EmptyString), Reply("http", EmptyString),
      Reply("nojson", EmptyString), Reply("other", EmptyString),
      Reply("object", GlossR), Reply("array", GlossR) }

\* the replies the page overlays' translation calls draw from: a failure, a
\* reply without text and a translation
HoverReplies ==
    { Reply("http", EmptyString), Reply("other", EmptyString), Reply("object", GlossR) }

translateAPI(reply) ==
    IF reply.kind \in {"reject", "http", "nojson"}
    THEN [threw |-> TRUE, text |-> EmptyString]
    ELSE IF reply.kind = "object" THEN [threw |-> FALSE, text |-> reply.text]
    ELSE IF reply.kind = "array" /\ reply.text # EmptyString
         THEN [threw |-> FALSE, text |-> reply.text]
    ELSE [threw |-> FALSE, text |-> EmptyString]

(***************************************************************************)
(* getWordTooltip, in its two parts: up to the await of translateAPI, and  *)
(* from the settlement of that await.  ops lists the WordCache calls and   *)
(* the translation call the part makes.                                    *)
(***************************************************************************)
OpGet(k, hit) == [op |-> "get", key |-> k, hit |-> hit, val |-> EmptyString]
OpSet(k, v) == [op |-> "set", key |-> k, hit |-> FALSE, val |-> v]
OpTranslate(k) == [op |-> "translate", key |-> k, hit |-> FALSE, val |-> EmptyString]

Outcome(kind, value, map, calls) ==
    [kind |-> kind, value |-> value, raised |-> FALSE, map |-> map, ops |-> calls]

getWordTooltipStart_NoCacheRead(arWord, lex, m) ==
    IF IsBlank(arWord) THEN Outcome("blank", EmptyString, m, << >>)
    ELSE IF LexiconHits(arWord, lex) # {}
    THEN Outcome("lexicon",
                 GlossText(lex[Candidates(arWord)[Min(LexiconHits(arWord, lex))]]),
                 m, << >>)
    ELSE Outcome("await", EmptyString, m, <<OpTranslate(arWord)>>)

getWordTooltipStart(arWord, lex, m) ==
    IF IsBlank(arWord) THEN Outcome("blank", EmptyString, m, << >>)
    ELSE IF LexiconHits(arWord, lex) # {}
    THEN Outcome("lexicon",
                 GlossText(lex[Candidates(arWord)[Min(LexiconHits(arWord, lex))]]),
                 m, << >>)
    ELSE LET got == WordCacheGet(m, arWord)
         IN  IF got.hit /\ got.val # EmptyString
             THEN Outcome("cache", got.val, got.map, <<OpGet(arWord, TRUE)>>)
             ELSE Outcome("await", EmptyString, got.map,
                          <<OpGet(arWord, got.hit), OpTranslate(arWord)>>)

getWordTooltipSettle_NoCatch(arWord, reply, m) ==
    LET en == translateAPI(reply)
        tip == IF en.text # EmptyString THEN en.text ELSE arWord
    IN  IF en.threw
        THEN [Outcome("fallback", EmptyString, m, << >>) EXCEPT !.raised = TRUE]
        ELSE Outcome("translated", tip, WordCacheSet(m, arWord, tip),
                     <<OpSet(arWord, tip)>>)

getWordTooltipSettle_StoresEmpty(arWord, reply, m) ==
    LET en == translateAPI(reply)
    IN  IF en.threw
        THEN Outcome("fallback", arWord, m, << >>)
        ELSE Outcome("translated", en.text, WordCacheSet(m, arWord, en.text),
                     <<OpSet(arWord, en.text)>>)

getWordTooltipSettle_NoStore(arWord, reply, m) ==
    LET en == translateAPI(reply)
        tip == IF en.text # EmptyString THEN en.text ELSE arWord
    IN  IF en.threw
        THEN Outcome("fallback", arWord, m, << >>)
        ELSE Outcome("translated", tip, m, << >>)

getWordTooltipSettle(arWord, reply, m) ==
    LET en == translateAPI(reply)
        tip == IF en.text # EmptyString THEN en.text ELSE arWord
    IN  IF en.threw
        THEN Outcome("fallback", arWord, m, << >>)
        ELSE Outcome("translated", tip, WordCacheSet(m, arWord, tip),
                     <<OpSet(arWord, tip)>>)

resolverVars == <<cache, limit, pending, ret, ops, firstTip>>
hoverVars == <<lexicon, pointer, hover, lastHoverWord, hoverTip>>
uploadVars == <<pages, busy, globalError, docxMode, runs, net, latest>>
serverVars == <<proxy, translator>>
pureVars == <<calc>>
vars == <<resolverVars, hoverVars, log, uploadVars, serverVars, pureVars>>

\* the PageOverlay components on screen: the pages of the page list
Overlays == {1, 2}

WordA == <<ALEF_HAMZA_ABOVE, FATHA>>
WordT == <<TEH_MARBUTA>>
BlankText == <<SPACE>>

\* the WordText of the word boxes of a page
BoxTexts == {WordA, WordT, BlankText}

\* the keys of the calls of the units: Limit + 1 distinct words
KeyWord(i) == [j \in 1..i |-> BEH]
CacheKeys == {KeyWord(i) : i \in 1..(Limit + 1)}
UnitWords == {KeyWord(1), WordA, BlankText}
UnitValues == {GlossR}

AllWords == CacheKeys \cup UnitWords \cup {Trim(t) : t \in BoxTexts}

NoPointer == [page |-> 0, text |-> EmptyString]
NoHover == [shown |-> FALSE, text |-> EmptyString, word |-> EmptyString]
Shown(text, word) == [shown |-> TRUE, text |-> text, word |-> word]
NoReply == Reply("none", EmptyString)
RetNone ==
    [word |-> EmptyString, kind |-> "none", value |-> EmptyString, raised |-> FALSE,
     lex |-> LexiconEmpty, reply |-> NoReply, page |-> 0]
Ret(word, out, lex, reply, page) ==
    [word |-> word, kind |-> out.kind, value |-> out.value, raised |-> out.raised,
     lex |-> lex, reply |-> reply, page |-> page]

CacheOps(o) == SelectSeq(o, LAMBDA x : x.op \in {"get", "set"})

\* ghost: the keys a step removed from the cache, as "evict" entries of ops
EvictOps(m, m2) ==
    LET gone == SelectSeq(m, LAMBDA e : ~MapHas(m2, e.key))
    IN  [i \in 1..Len(gone) |->
            [op |-> "evict", key |-> gone[i].key, hit |-> FALSE, val |-> EmptyString]]

HasOp(o, name) == \E i \in 1..Len(o) : o[i].op = name

Call(word, page) == [word |-> word, page |-> page]

\* the ghost firstTip after a step that takes the cache from m to m2 and, when
\* stored is TRUE, stores tip under word
FirstTipAfter(m, m2, stored, word, tip) ==
    [k \in AllWords |->
        IF ~MapHas(m2, k) THEN EmptyString
        ELSE IF stored /\ k = word /\ ~MapHas(m, k) THEN tip
        ELSE firstTip[k]]

(***************************************************************************)
(* The OCR proxy /api/ocr-space: handler, callWithFallback, callEngine and *)
(* countOverlay.  A response body is kept by the parts countOverlay and    *)
(* the note assignment look at.                                            *)
(***************************************************************************)
\* the overlay word counts of the well-formed engine bodies
OverlayCounts == {0, 5}

\* a body of an engine response.  nojson: not JSON; null, number: a JSON value
\* that is no object; object: an object without ParsedResults; overlay: a
\* ParsedResults[0].TextOverlay.Lines with words words; badLines: Lines is not
\* iterable; badWords: a line whose Words has no length.  key: the body
\* repeats the apikey of the form, which the service's bodies do not
Body(shape, words) == [shape |-> shape, words |-> words, key |-> FALSE]
Bodies ==
    {Body(sh, 0) : sh \in {"nojson", "null", "number", "object", "badLines", "badWords"}}
        \cup {Body("overlay", n) : n \in OverlayCounts}

\* what the fetch of an engine call ends with.  timeout: the abort timer
\* fires; reject: the transport fails; ok, http: a response arrives with an OK
\* or another status
EngineReply(kind, body) == [kind |-> kind, body |-> body]
EngineReplies ==
    {EngineReply(k, Body("none", 0)) : k \in {"timeout", "reject"}}
        \cup {EngineReply(k, b) : k \in {"ok", "http"}, b \in Bodies}

\* a value callEngine returns.  object: it can take a property; errored: its
\* ErrorMessage, when it has the OCRExitCode 999 wrapper
Resp(engine, object, errored, overlay, words) ==
    [engine |-> engine, object |-> object, errored |-> errored,
     overlay |-> overlay, words |-> words, note |-> "", key |-> FALSE]
NoResp == Resp(0, FALSE, "", "none", 0)

\* the overlay part of a body that is an object
OverlayOf(body) ==
    IF body.shape \in {"overlay", "badLines", "badWords"} THEN body.shape ELSE "none"

callEngine_Throws(engine, reply) ==
    IF reply.kind \in {"timeout", "reject"} \/ reply.body.shape = "nojson"
    THEN Resp(engine, FALSE, "", "raised", 0)
    ELSE Resp(engine, reply.body.shape \notin {"null", "number"}, "",
              OverlayOf(reply.body), reply.body.words)

callEngine_EchoesForm(engine, reply) ==
    IF reply.kind \in {"timeout", "reject"}
    THEN [Resp(engine, TRUE, "fetch failed", "none", 0) EXCEPT !.key = TRUE]
    ELSE Resp(engine, reply.body.shape \notin {"null", "number"}, "",
              OverlayOf(reply.body), reply.body.words)

\* callEngine from the settlement of its fetch.  The overlay "raised" stands
\* for an exception leaving callEngine, which the code never lets happen.
\* The result holds the apikey when the body it is made of does: the form
\* goes into the fetch only.
callEngine(engine, reply) ==
    IF reply.kind \in {"timeout", "reject"}
    THEN \* the catch: the error object
         Resp(engine, TRUE, IF reply.kind = "timeout" THEN "timeout" ELSE "fetch failed",
              "none", 0)
    ELSE IF reply.kind = "http"
    THEN \* the error fields, then the fields of the body
         [Resp(engine, TRUE, "HTTP 500", OverlayOf(reply.body), reply.body.words)
             EXCEPT !.key = reply.body.key]
    ELSE IF reply.body.shape = "nojson"
    THEN \* r.json().catch(() => ({}))
         Resp(engine, TRUE, "", "none", 0)
    ELSE [Resp(engine, reply.body.shape \notin {"null", "number"}, "",
               OverlayOf(reply.body), reply.body.words)
             EXCEPT !.key = reply.body.key]

\* a JavaScript number: NaN or n
Num(n) == [nan |-> FALSE, n |-> n]
NaN == [nan |-> TRUE, n |-> 0]
Greater(a, b) == ~a.nan /\ ~b.nan /\ a.n > b.n

\* countOverlay: a badLines body throws in the loop and counts 0; a badWords
\* body adds undefined
countOverlay(resp) ==
    IF resp.overlay = "overlay" THEN Num(resp.words)
    ELSE IF resp.overlay = "badWords" THEN NaN
    ELSE Num(0)

\* the overlay words a response holds
Words(resp) == IF resp.overlay = "overlay" THEN resp.words ELSE 0

\* an HTTP request to the handler
Request(method, body, key) == [method |-> method, body |-> body, key |-> key]
Requests ==
    { Request("OPTIONS", "none", TRUE), Request("GET", "none", TRUE),
      Request("POST", "nojson", TRUE), Request("POST", "null", TRUE),
      Request("POST", "image", FALSE), Request("POST", "image", TRUE) }

\* the handler's response: a status, and the result or an error
Response(status, error, resp) == [status |-> status, error |-> error, resp |-> resp]
NoResponse == Response(0, "", NoResp)

IdleProxy ==
    [pc |-> "idle", timer |-> 0, calls |-> << >>, first |-> NoResp, second |-> NoResp,
     reply |-> NoResponse]

InitServer == proxy = IdleProxy

\* callEngine up to its await: the engine is called and its abort timer set
StartEngine(px, engine) ==
    [px EXCEPT !.pc = IF engine = 2 THEN "engine2" ELSE "engine1",
               !.timer = engine,
               !.calls = Append(px.calls, engine)]

\* the handler returns a response
Replied(px, response) == [px EXCEPT !.pc = "replied", !.timer = 0, !.reply = response]

\* resp._note = note; return resp, with the throw of an assignment to a value
\* that is no object caught by the handler
ReturnWithNote(px, resp, note) ==
    IF resp.object
    THEN Replied(px, Response(200, "", [resp EXCEPT !.note = note]))
    ELSE Replied(px, Response(500, "TypeError", NoResp))

\* handler, up to the await of engine 2's fetch
Receive(req) ==
    /\ proxy.pc \in {"idle", "replied"}
    /\ proxy' =
          IF req.method = "OPTIONS" THEN Replied(IdleProxy, Response(204, "", NoResp))
          ELSE IF req.method # "POST"
          THEN Replied(IdleProxy, Response(405, "POST only", NoResp))
          ELSE IF req.body = "nojson"
          THEN Replied(IdleProxy, Response(500, "SyntaxError", NoResp))
          ELSE IF req.body # "image"
          THEN Replied(IdleProxy, Response(400, "Missing base64Image", NoResp))
          ELSE IF ~req.key
          THEN Replied(IdleProxy, Response(500, "Server missing OCRSPACE_API_KEY", NoResp))
          ELSE StartEngine(IdleProxy, 2)
    /\ UNCHANGED <<resolverVars, hoverVars, log, uploadVars, pureVars, translator>>

\* engine 2's fetch settles: the rest of callEngine, then callWithFallback up
\* to the return or to the await of engine 1's fetch
Engine2Settles(reply) ==
    /\ proxy.pc = "engine2"
    /\ (reply.kind = "timeout" => proxy.timer = 2)
    /\ LET first == callEngine(2, reply)
           px == [proxy EXCEPT !.first = first, !.timer = 0]
       IN  proxy' =
              IF first.overlay = "raised"
              THEN \* the handler's catch
                   Replied(px, Response(500, "engine 2", NoResp))
              ELSE IF Greater(countOverlay(first), Num(0))
              THEN ReturnWithNote(px, first, "Used OCR Engine 2.")
              ELSE StartEngine(px, 1)
    /\ UNCHANGED <<resolverVars, hoverVars, log, uploadVars, pureVars, translator>>

\* count2 > count
PickSecond(count2, count) == Greater(count2, count)

\* engine 1's fetch settles: the rest of callEngine and of callWithFallback
Engine1Settles(reply) ==
    /\ proxy.pc = "engine1"
    /\ (reply.kind = "timeout" => proxy.timer = 1)
    /\ LET second == callEngine(1, reply)
           px == [proxy EXCEPT !.second = second, !.timer = 0]
       IN  proxy' =
              IF second.overlay = "raised"
              THEN \* the handler's catch
                   Replied(px, Response(500, "engine 1", NoResp))
              ELSE IF PickSecond(countOverlay(second), countOverlay(proxy.first))
              THEN ReturnWithNote(px, second, "Used OCR Engine 1 (more overlay words).")
              ELSE ReturnWithNote(px, proxy.first, "Engine 2 kept (Engine 1 not better).")
    /\ UNCHANGED <<resolverVars, hoverVars, log, uploadVars, pureVars, translator>>

(***************************************************************************)
(* The translate proxy /api/translate: the handler with its two backends,  *)
(* a LibreTranslate-compatible endpoint and MyMemory.                      *)
(***************************************************************************)
\* a request to the handler: its method, the q of its body ("nojson": the
\* body is not JSON) and whether TRANSLATE_URL is set
TranslateRequest(method, q, configured) ==
    [method |-> method, q |-> q, configured |-> configured]
TranslateRequests ==
    {TranslateRequest(m, "word", c) : m \in {"OPTIONS", "GET"}, c \in BOOLEAN}
        \cup {TranslateRequest("POST", q, c) : q \in {"nojson", "", "word"}, c \in BOOLEAN}

\* what a backend's fetch ends with.  reject: fetch throws; http: a status
\* that is not OK; nojson: the body is not JSON; null: the body is null;
\* flat: {translatedText: text}; nested: {data: {translatedText: text}} for
\* LibreTranslate, {responseData: {translatedText: text}} for MyMemory;
\* other: an object without these
BackendReply(kind, text) == [kind |-> kind, text |-> text]
BackendReplies ==
    {BackendReply(k, "") : k \in {"reject", "http", "nojson", "null", "other"}}
        \cup {BackendReply(k, t) : k \in {"flat", "nested"}, t \in {"", "book"}}

TranslateResponse(status, error, text) == [status |-> status, error |-> error, text |-> text]

IdleTranslator ==
    [pc |-> "idle", configured |-> FALSE, calls |-> << >>,
     libre |-> BackendReply("none", ""), reply |-> TranslateResponse(0, "", "")]

InitTranslate == translator = IdleTranslator

TranslatorReplied(tr, response) == [tr EXCEPT !.pc = "replied", !.reply = response]

LibreText_FlatOnly(reply) == IF reply.kind = "flat" THEN reply.text ELSE ""

\* j?.translatedText || j?.data?.translatedText || ''
LibreText(reply) == IF reply.kind \in {"flat", "nested"} THEN reply.text ELSE ""

\* data?.responseData?.translatedText || ''
MyMemoryText(reply) == IF reply.kind = "nested" THEN reply.text ELSE ""

\* the fetch of MyMemory is started
CallMyMemory(tr) == [tr EXCEPT !.pc = "mymemory", !.calls = Append(tr.calls, "MyMemory")]

\* handler, up to its first fetch
TranslateReceive(req) ==
    /\ translator.pc \in {"idle", "replied"}
    /\ translator' =
          LET tr == [IdleTranslator EXCEPT !.configured = req.configured]
          IN  IF req.method = "OPTIONS"
              THEN TranslatorReplied(tr, TranslateResponse(204, "", ""))
              ELSE IF req.method # "POST"
              THEN TranslatorReplied(tr, TranslateResponse(405, "POST only", ""))
              ELSE IF req.q = "nojson"
              THEN TranslatorReplied(tr, TranslateResponse(500, "SyntaxError", ""))
              ELSE IF req.q = ""
              THEN TranslatorReplied(tr, TranslateResponse(400, "Missing q", ""))
              ELSE IF req.configured
              THEN [tr EXCEPT !.pc = "libre", !.calls = <<"LibreTranslate">>]
              ELSE CallMyMemory(tr)
    /\ UNCHANGED <<resolverVars, hoverVars, log, uploadVars, pureVars, proxy>>

\* the fetch of TRANSLATE_URL settles: the rest of the inner try
LibreSettles(reply) ==
    /\ translator.pc = "libre"
    /\ translator' =
          LET tr == [translator EXCEPT !.libre = reply]
          IN  IF reply.kind \in {"reject", "http", "nojson"}
              THEN \* the inner catch, or r.ok is false
                   CallMyMemory(tr)
              ELSE IF LibreText(reply) # ""
              THEN TranslatorReplied(tr, TranslateResponse(200, "", LibreText(reply)))
              ELSE CallMyMemory(tr)
    /\ UNCHANGED <<resolverVars, hoverVars, log, uploadVars, pureVars, proxy>>

\* the fetch of MyMemory settles: resp.json().catch(() => ({})), and the outer
\* catch for a fetch that throws
MyMemorySettles(reply) ==
    /\ translator.pc = "mymemory"
    /\ translator' =
          IF reply.kind = "reject"
          THEN TranslatorReplied(translator, TranslateResponse(500, "fetch failed", ""))
          ELSE TranslatorReplied(translator, TranslateResponse(200, "", MyMemoryText(reply)))
    /\ UNCHANGED <<resolverVars, hoverVars, log, uploadVars, pureVars, proxy>>

(***************************************************************************)
(* The upload pipeline: handleFile, handlePdf and handleDocx.  Every await *)
(* of a handleFile invocation is a request in net; the invocation goes on  *)
(* when the request it awaits settles, or when the OCR timer fires first.  *)
(***************************************************************************)
\* the handleFile invocations of a behaviour
RunIds == {1, 2}
\* pages of the largest uploaded PDF
MaxDocPages == 2
\* the test boxes handlePdf adds to a page when "Draw test boxes" is on
SynthBoxes == 6

PdfFile == [ext |-> "pdf", type |-> "application/pdf"]
PdfByTypeFile == [ext |-> "bin", type |-> "application/pdf"]
DocxFile == [ext |-> "docx", type |-> ""]
TextFile == [ext |-> "txt", type |-> "text/plain"]
Files == {PdfFile, PdfByTypeFile, DocxFile, TextFile}

isPDF_AnyType(file) == file.ext = "pdf" \/ file.type # ""

isPDF(file) == file.ext = "pdf" \/ file.type = "application/pdf"
isDOCX(file) ==
    \/ file.ext = "docx"
    \/ file.type = "application/vnd.openxmlformats-officedocument.wordprocessingml.document"

\* forceOcr, testBoxes and maxPages (the number field, 0 when it is empty) as the
\* invocation's closure holds them
Settings ==
    { [forceOcr |-> FALSE, testBoxes |-> FALSE, maxPages |-> 2],
      [forceOcr |-> TRUE, testBoxes |-> FALSE, maxPages |-> 2],
      [forceOcr |-> FALSE, testBoxes |-> TRUE, maxPages |-> 0] }

Max(a, b) == IF a >= b THEN a ELSE b
Least(a, b) == IF a <= b THEN a ELSE b

\* Math.min(total, Math.max(1, Number(maxPages) || 1))
PageLimit(total, maxPages) ==
    Least(total, Max(1, IF maxPages = 0 THEN 1 ELSE maxPages))

\* what a request settles with
Result(ok, total, items, arabic, words, err) ==
    [ok |-> ok, total |-> total, items |-> items, arabic |-> arabic,
     words |-> words, err |-> err]
Ok == Result(TRUE, 0, 0, 0, 0, "")
Failed(err) == Result(FALSE, 0, 0, 0, 0, err)

\* getTextContent: the text items, those safeIsArabicString accepts, and the
\* word boxes layoutWordsFromTextItems makes of them
TextResults ==
    { Result(TRUE, 0, 0, 0, 0, ""), Result(TRUE, 0, 5, 1, 3, ""),
      Result(TRUE, 0, 5, 1, 2, ""), Result(TRUE, 0, 6, 1, 3, ""),
      Result(TRUE, 0, 100, 19, 3, "") }

\* the proxy's reply when both engine calls have failed
BothEnginesFailed ==
    Response(200, "",
             [callEngine(2, EngineReply("reject", Body("none", 0)))
                 EXCEPT !.note = "Engine 2 kept (Engine 1 not better)."])

\* ocrPageViaServerless and the conversion of its result: the words of the
\* overlay of a 200 reply (err is the ErrorMessage of its body, which the
\* client does not read), a throw for another status
ClientOcrResult(response) ==
    IF response.status = 200
    THEN Result(TRUE, 0, 0, 0, Words(response.resp), response.resp.errored)
    ELSE Failed("OCR HTTP " \o ToString(response.status))

\* the OCR response: the words of its overlay, or a failure
OcrResults ==
    { Result(TRUE, 0, 0, 0, 0, ""), Result(TRUE, 0, 0, 0, 2, ""),
      ClientOcrResult(BothEnginesFailed),
      ClientOcrResult(Response(500, "TypeError", NoResp)), Failed("Failed to fetch") }

Results(kind) ==
    CASE kind = "getDocument" ->
            {Result(TRUE, n, 0, 0, 0, "") : n \in 1..MaxDocPages} \cup {Failed("Invalid PDF")}
      [] kind = "text" -> TextResults \cup {Failed("text failed")}
      [] kind = "ocr" -> OcrResults
      [] OTHER -> {Ok, Failed(kind)}

Op(r, i, kind) == [run |-> r, page |-> i, kind |-> kind]

\* limit holds maxPages until getDocument has settled, then handlePdf's limit
IdleRun ==
    [pc |-> "idle", i |-> 0, limit |-> 0, forceOcr |-> FALSE, testBoxes |-> FALSE,
     reason |-> "", alone |-> FALSE]

Active(r) == runs[r].pc \notin {"idle", "done"}

\* the invocation awaits this request
Awaits(r, op) == op.run = r /\ runs[r].pc = op.kind /\ runs[r].i = op.page

PageMeta(r, i, img, boxes, mode, reason, error) ==
    [run |-> r, page |-> i, img |-> img, boxCount |-> boxes, mode |-> mode,
     reason |-> reason, error |-> error]

BoxCount(r, words) == words + (IF runs[r].testBoxes THEN SynthBoxes ELSE 0)

InitUpload ==
    /\ pages = << >>
    /\ busy = FALSE
    /\ globalError = ""
    /\ docxMode = FALSE
    /\ runs = [r \in RunIds |-> IdleRun]
    /\ net = {}
    /\ latest = 0

\* handleFile up to its first await
handleFile(r, file, settings) ==
    /\ runs[r].pc = "idle"
    /\ \A q \in RunIds : q < r => runs[q].pc # "idle"
    /\ pages' = << >>
    /\ latest' = r
    /\ IF isPDF(file)
       THEN /\ busy' = TRUE
            /\ globalError' = ""
            /\ docxMode' = FALSE
            /\ net' = net \cup {Op(r, 0, "arrayBuffer")}
            /\ runs' = [q \in RunIds |->
                  IF q = r
                  THEN [IdleRun EXCEPT !.pc = "arrayBuffer",
                                       !.limit = settings.maxPages,
                                       !.forceOcr = settings.forceOcr,
                                       !.testBoxes = settings.testBoxes,
                                       !.alone = \A o \in RunIds : ~Active(o)]
                  ELSE [runs[q] EXCEPT !.alone = FALSE]]
       ELSE IF isDOCX(file) /\ docxMode
       THEN \* handleDocx: the container is mounted
            /\ busy' = TRUE
            /\ globalError' = ""
            /\ docxMode' = TRUE
            /\ net' = net \cup {Op(r, 0, "docxBuffer")}
            /\ runs' = [q \in RunIds |->
                  IF q = r THEN [IdleRun EXCEPT !.pc = "docxBuffer"]
                  ELSE [runs[q] EXCEPT !.alone = FALSE]]
       ELSE \* an unsupported type, or handleDocx with docxContainerRef.current
            \* null: the throw is caught before any await
            /\ busy' = FALSE
            /\ globalError' = IF isDOCX(file) THEN "TypeError"
                              ELSE "Unsupported file type. Please upload PDF or DOCX."
            /\ docxMode' = isDOCX(file)
            /\ net' = net
            /\ runs' = [q \in RunIds |->
                  IF q = r THEN [IdleRun EXCEPT !.pc = "done"]
                  ELSE [runs[q] EXCEPT !.alone = FALSE]]
    /\ UNCHANGED <<resolverVars, hoverVars, log, serverVars, pureVars>>

PagesAfterAppend_AtTheEnd(ps, meta) == ps

\* setPages((prev) => [...prev, pageMeta])
PagesAfterAppend(ps, meta) == Append(ps, meta)

\* out.push(pageMeta); setPages(...); then the next turn of the loop, or the
\* end of handlePdf and the finally of handleFile.  net2 is net after the step
\* that ended the page.
PageDone(r, meta, net2) ==
    /\ pages' = PagesAfterAppend(pages, meta)
    /\ IF runs[r].i < runs[r].limit
       THEN /\ runs' = [runs EXCEPT ![r].pc = "getPage", ![r].i = runs[r].i + 1,
                                    ![r].reason = ""]
            /\ net' = net2 \cup {Op(r, runs[r].i + 1, "getPage")}
            /\ busy' = busy
       ELSE /\ runs' = [runs EXCEPT ![r].pc = "done"]
            /\ net' = net2
            /\ busy' = FALSE
    /\ UNCHANGED <<globalError, docxMode, latest>>

\* the catch and the finally of handleFile
UploadFailed(r, op, err) ==
    /\ globalError' = err
    /\ busy' = FALSE
    /\ runs' = [runs EXCEPT ![r].pc = "done"]
    /\ net' = net \ {op}
    /\ UNCHANGED <<pages, docxMode, latest>>

\* the next await of the same page
Await(r, op, kind, reason) ==
    /\ runs' = [runs EXCEPT ![r].pc = kind, ![r].reason = reason]
    /\ net' = (net \ {op}) \cup {Op(r, runs[r].i, kind)}
    /\ UNCHANGED <<pages, busy, globalError, docxMode, latest>>

PageFailed_Fatal(r, op, img, err) == UploadFailed(r, op, err)

\* the page's catch: pageMeta.error, with the image when the render was done
PageFailed(r, op, img, err) ==
    PageDone(r, PageMeta(r, runs[r].i, img, 0, "none", "", err), net \ {op})

EmbeddedGlyphs_Exclusive(res) == res.items > 0 /\ 5 * res.arabic <= res.items

\* arabicItems.length / items.length < 0.2
EmbeddedGlyphs(res) == res.items > 0 /\ 5 * res.arabic < res.items

OcrReason_Generic(reason) == "No usable text layer; OCR used."

\* the reason of a page whose OCR request succeeded
OcrReason(reason) ==
    IF reason = "embedded-glyphs" THEN "Embedded text wasn't Unicode Arabic; OCR used."
    ELSE IF reason = "forced-ocr" THEN "Force OCR enabled."
    ELSE IF reason = "" THEN "No usable text layer; OCR used."
    ELSE reason

\* the request a handleFile invocation awaits settles with res
Resume(r, op, res) ==
    LET run == runs[r]
    IN  CASE op.kind = "arrayBuffer" ->
               IF res.ok THEN Await(r, op, "getDocument", "")
               ELSE UploadFailed(r, op, res.err)
          [] op.kind = "getDocument" ->
               IF res.ok
               THEN /\ runs' = [runs EXCEPT ![r].pc = "getPage", ![r].i = 1,
                                  ![r].limit = PageLimit(res.total, run.limit)]
                    /\ net' = (net \ {op}) \cup {Op(r, 1, "getPage")}
                    /\ UNCHANGED <<pages, busy, globalError, docxMode, latest>>
               ELSE UploadFailed(r, op, res.err)
          [] op.kind = "getPage" ->
               IF res.ok THEN Await(r, op, "render", "")
               ELSE PageFailed(r, op, FALSE, res.err)
          [] op.kind = "render" ->
               IF ~res.ok THEN PageFailed(r, op, FALSE, res.err)
               ELSE IF run.forceOcr THEN Await(r, op, "ocr", "forced-ocr")
               ELSE Await(r, op, "text", "")
          [] op.kind = "text" ->
               IF ~res.ok THEN PageFailed(r, op, TRUE, res.err)
               ELSE IF EmbeddedGlyphs(res) THEN Await(r, op, "ocr", "embedded-glyphs")
               ELSE IF res.words < 3 THEN Await(r, op, "ocr", "no-words")
               ELSE PageDone(r, PageMeta(r, run.i, TRUE, BoxCount(r, res.words),
                                         "text", "", ""),
                             net \ {op})
          [] op.kind = "ocr" ->
               IF res.ok
               THEN PageDone(r, PageMeta(r, run.i, TRUE, BoxCount(r, res.words),
                                         "ocr", OcrReason(run.reason), ""),
                             net \ {op})
               ELSE PageDone(r, PageMeta(r, run.i, TRUE, BoxCount(r, 0), "ocr",
                                         "OCR error: " \o res.err, ""),
                             net \ {op})
          [] op.kind = "docxBuffer" ->
               IF res.ok THEN Await(r, op, "loadDocxPreview", "")
               ELSE UploadFailed(r, op, res.err)
          [] op.kind = "loadDocxPreview" ->
               IF res.ok THEN Await(r, op, "renderAsync", "")
               ELSE UploadFailed(r, op, res.err)
          [] op.kind = "renderAsync" ->
               IF res.ok
               THEN /\ runs' = [runs EXCEPT ![r].pc = "done"]
                    /\ net' = net \ {op}
                    /\ busy' = FALSE
                    /\ UNCHANGED <<pages, globalError, docxMode, latest>>
               ELSE UploadFailed(r, op, res.err)

\* a request settles: the invocation that awaits it goes on; a request no
\* invocation awaits any more just ends
Settled(op, res) ==
    /\ op \in net
    /\ IF Awaits(op.run, op)
       THEN Resume(op.run, op, res)
       ELSE /\ net' = net \ {op}
            /\ UNCHANGED <<pages, busy, globalError, docxMode, runs, latest>>
    /\ UNCHANGED <<resolverVars, hoverVars, log, serverVars, pureVars>>

OcrTimeout_KeepsMode(r) ==
    /\ runs[r].pc = "ocr"
    /\ PageDone(r, PageMeta(r, runs[r].i, TRUE, BoxCount(r, 0), "none",
                         "OCR error: Timeout", ""),
                net)
    /\ UNCHANGED <<resolverVars, hoverVars, log, serverVars, pureVars>>

\* ocrPageViaServerless: the timer of Promise.race fires before the fetch
\* settles; the fetch is not aborted
OcrTimeout(r) ==
    /\ runs[r].pc = "ocr"
    /\ PageDone(r, PageMeta(r, runs[r].i, TRUE, BoxCount(r, 0), "ocr",
                         "OCR error: Timeout", ""),
                net)
    /\ UNCHANGED <<resolverVars, hoverVars, log, serverVars, pureVars>>

(***************************************************************************)
(* The word boxes: layoutWordsFromTextItems, the conversion of the OCR     *)
(* words and the test boxes.  A number is kept as a fraction num/den, or   *)
(* as undefined when the field is missing.                                 *)
(***************************************************************************)
\* longest string given to a pure function
MaxLen == 3
\* largest width of a text run
MaxWidth == 12
\* minimum width and height of a laid out box, height of a run without one,
\* width and height of a test box
MinBoxWidth == 3
MinBoxHeight == 10
DefaultFontHeight == 12
SynthWidth == 120
SynthHeight == 36

Frac(num, den) == [def |-> TRUE, num |-> num, den |-> den]
Undefined == [def |-> FALSE, num |-> 0, den |-> 1]

\* Math.max of two fractions
MaxFrac(a, b) == IF a.num * b.den >= b.num * a.den THEN a ELSE b
PlusFrac(a, b) == Frac(a.num * b.den + b.num * a.den, a.den * b.den)

Box(text, left, width, height) ==
    [WordText |-> text, Left |-> left, Width |-> width, Height |-> height]

\* the strings over an alphabet, up to a length
StringsOver(alphabet, n) == UNION {[1..k -> alphabet] : k \in 0..n}

\* \p{Script=Arabic}, for the code units the inputs are made of: the letters
\* 0620-063F and 0641-064A (the marks and the tatweel are not of the script)
IsArabicScript(c) == (c >= 1568 /\ c <= 1599) \/ (c >= 1601 /\ c <= 1610)

\* safeIsArabicString: at least 60% of the code units are of the script
safeIsArabicString(s) ==
    /\ s # << >>
    /\ 10 * Cardinality({i \in 1..Len(s) : IsArabicScript(s[i])}) >= 6 * Len(s)

\* str.replace(/\s+/g, " ").trim().split(" ").filter(Boolean): the maximal
\* runs of code units that are no whitespace
RECURSIVE SplitWords(_)
SplitWords(s) ==
    LET t == TrimLeft(s)
        n == IF \E i \in 1..Len(t) : IsSpace(t[i])
             THEN (CHOOSE i \in 1..Len(t) :
                      IsSpace(t[i]) /\ \A j \in 1..(i - 1) : ~IsSpace(t[j])) - 1
             ELSE Len(t)
    IN  IF t = << >> THEN << >>
        ELSE <<SubSeq(t, 1, n)>> \o SplitWords(SubSeq(t, n + 1, Len(t)))

RECURSIVE SumLen(_)
SumLen(parts) == IF parts = << >> THEN 0 ELSE Len(Head(parts)) + SumLen(Tail(parts))

\* a text item of pdf.js: its string, its width times the viewport scale, and
\* the font height Math.hypot gives (0 when the transform is degenerate)
TextItem(str, width, fontHeight) == [str |-> str, width |-> width, fontHeight |-> fontHeight]

PieceWidth_Unclamped(width, chars, totalChars) == Frac(width * chars, totalChars)

\* Math.max(3, width * (chars / totalChars))
PieceWidth(width, chars, totalChars) ==
    MaxFrac(Frac(MinBoxWidth, 1), Frac(width * chars, totalChars))

\* the inner loop of layoutWordsFromTextItems: the boxes of the parts from
\* cursorX on (Left is relative to the run's x)
RECURSIVE LayoutParts(_, _, _, _, _)
LayoutParts(parts, cursorX, width, totalChars, h) ==
    IF parts = << >> THEN << >>
    ELSE LET w == PieceWidth(width, Len(Head(parts)), totalChars)
         IN  <<Box(Head(parts), cursorX, w,
                   MaxFrac(Frac(MinBoxHeight, 1), Frac(h * 115, 100)))>>
             \o LayoutParts(Tail(parts),
                            PlusFrac(PlusFrac(cursorX, w), Frac(width, totalChars)),
                            width, totalChars, h)

\* the body of the outer loop for one item
LayoutItem(it) ==
    IF IsBlank(it.str) \/ ~safeIsArabicString(it.str) THEN << >>
    ELSE LET parts == SplitWords(it.str)
             totalChars == IF SumLen(parts) = 0 THEN 1 ELSE SumLen(parts)
             h == IF it.fontHeight = 0 THEN DefaultFontHeight ELSE it.fontHeight
         IN  LayoutParts(parts, Frac(0, 1), it.width, totalChars, h)

RECURSIVE layoutWordsFromTextItems(_)
layoutWordsFromTextItems(items) ==
    IF items = << >> THEN << >>
    ELSE LayoutItem(Head(items)) \o layoutWordsFromTextItems(Tail(items))

\* the words of an OCR line as the engine sends them: Width and Height may be
\* missing or zero
OcrWordFields == {Undefined, Frac(0, 1), Frac(40, 1)}
OcrWord(width, height) == Box(<<BEH>>, Frac(0, 1), width, height)

\* ocrWords.push({ ...w, lineText }): the fields are copied as they are
OcrWordsToBoxes(words) == [i \in 1..Len(words) |-> words[i]]

\* the test boxes
SynthOverlay ==
    [k \in 1..SynthBoxes |->
        Box(<<BEH>>, Frac(20 + (k - 1) * 24, 1), Frac(SynthWidth, 1), Frac(SynthHeight, 1))]

\* arg: the kind of the argument (a string, null or undefined); threw: the
\* call ended with an exception; primary, fallback: the results of the two
\* paths of safeIsArabicString
Calc(fn, item, input, overlay, out, twice) ==
    [fn |-> fn, item |-> item, input |-> input, overlay |-> overlay, out |-> out,
     twice |-> twice, arg |-> "string", threw |-> FALSE, primary |-> FALSE,
     fallback |-> FALSE]
NoCalc == Calc("none", TextItem(<< >>, 0, 0), << >>, << >>, << >>, << >>)
InitPure == calc = NoCalc

\* the strings of the text items: letters, a mark and spaces
ItemStrings == StringsOver({BEH, FATHA, SPACE}, MaxLen + 1)

\* layoutWordsFromTextItems on a run, alone or after a run of Latin text
CallLayout ==
    /\ calc = NoCalc
    /\ \E str \in ItemStrings, width \in 0..MaxWidth, fh \in {0, 8}, latinFirst \in BOOLEAN :
          LET it == TextItem(str, width, fh)
          IN  calc' = Calc("layout", it, str,
                           layoutWordsFromTextItems(
                               IF latinFirst THEN <<TextItem(<<LATIN_R>>, 5, 9), it>>
                               ELSE <<it>>),
                           << >>, << >>)
    /\ UNCHANGED <<resolverVars, hoverVars, log, uploadVars, serverVars>>

\* the conversion of the words of an OCR response
CallOcrWords ==
    /\ calc = NoCalc
    /\ \E w1, h1, w2, h2 \in OcrWordFields :
          calc' = Calc("ocr", TextItem(<< >>, 0, 0), << >>,
                       OcrWordsToBoxes(<<OcrWord(w1, h1), OcrWord(w2, h2)>>), << >>, << >>)
    /\ UNCHANGED <<resolverVars, hoverVars, log, uploadVars, serverVars>>

\* the test boxes added to a page
CallSynth ==
    /\ calc = NoCalc
    /\ calc' = Calc("synth", TextItem(<< >>, 0, 0), << >>, SynthOverlay, << >>, << >>)
    /\ UNCHANGED <<resolverVars, hoverVars, log, uploadVars, serverVars>>

\* the strings given to the normalizers: ASCII, whitespace, the letters with
\* their variants, the tatweel and a diacritic
NormalizerAlphabet ==
    {LATIN_R, COMMA, SPACE, HAMZA, ALEF_MADDA, ALEF_HAMZA_ABOVE, WAW_HAMZA,
     ALEF_HAMZA_BELOW, YEH_HAMZA, ALEF, BEH, TEH_MARBUTA, TATWEEL, HEH,
     ALEF_MAKSURA, YEH, FATHA}
NormalizerStrings == StringsOver(NormalizerAlphabet, MaxLen)

\* a JavaScript argument: a string, null or undefined
Arg(kind, str) == [kind |-> kind, str |-> str]
NormalizerArgs ==
    {Arg("null", << >>), Arg("undefined", << >>)}
        \cup {Arg("string", s) : s \in NormalizerStrings}

\* stripDiacritics called with any value: (s || "")
stripDiacriticsCall(v) ==
    [threw |-> FALSE,
     out |-> stripDiacritics(IF v.kind = "string" THEN v.str ELSE << >>)]

\* normalizeArabic called with any value: the default "" stands in for
\* undefined only, and null has no replace
normalizeArabicCall(v) ==
    IF v.kind = "null" THEN [threw |-> TRUE, out |-> << >>]
    ELSE [threw |-> FALSE,
          out |-> normalizeArabic(IF v.kind = "string" THEN v.str ELSE << >>)]

\* the catch path of safeIsArabicString: the class [0600-06FF]
safeIsArabicStringFallback(s) ==
    /\ s # << >>
    /\ 10 * Cardinality({i \in 1..Len(s) : InArabicBlock(s[i])}) >= 6 * Len(s)

\* stripDiacritics(v), and stripDiacritics of its result
CallStripDiacritics ==
    /\ calc = NoCalc
    /\ \E v \in NormalizerArgs :
          LET got == stripDiacriticsCall(v)
          IN  calc' = [Calc("stripDiacritics", TextItem(<< >>, 0, 0), v.str, << >>,
                            got.out, stripDiacritics(got.out))
                          EXCEPT !.arg = v.kind, !.threw = got.threw]
    /\ UNCHANGED <<resolverVars, hoverVars, log, uploadVars, serverVars>>

\* normalizeArabic(v), and normalizeArabic of its result
CallNormalizeArabic ==
    /\ calc = NoCalc
    /\ \E v \in NormalizerArgs :
          LET got == normalizeArabicCall(v)
          IN  calc' = [Calc("normalizeArabic", TextItem(<< >>, 0, 0), v.str, << >>,
                            got.out, normalizeArabic(got.out))
                          EXCEPT !.arg = v.kind, !.threw = got.threw]
    /\ UNCHANGED <<resolverVars, hoverVars, log, uploadVars, serverVars>>

\* safeIsArabicString(v): the result of the try path, and the one the catch
\* path gives for the same value
CallSafeIsArabicString ==
    /\ calc = NoCalc
    /\ \E v \in NormalizerArgs :
          calc' = [Calc("safeIsArabicString", TextItem(<< >>, 0, 0), v.str, << >>,
                        << >>, << >>)
                      EXCEPT !.arg = v.kind,
                             !.primary = v.kind = "string" /\ safeIsArabicString(v.str),
                             !.fallback = v.kind = "string"
                                             /\ safeIsArabicStringFallback(v.str)]
    /\ UNCHANGED <<resolverVars, hoverVars, log, uploadVars, serverVars>>

\* the caller takes the result
Return ==
    /\ calc # NoCalc
    /\ calc' = NoCalc
    /\ UNCHANGED <<resolverVars, hoverVars, log, uploadVars, serverVars>>

InitResolver ==
    /\ cache = << >>
    /\ pending = EmptyBag
    /\ ret = RetNone
    /\ ops = << >>
    /\ firstTip = [k \in AllWords |-> EmptyString]

InitHover ==
    /\ lexicon = LexiconEmpty
    /\ pointer = NoPointer
    /\ hover = [p \in Overlays |-> NoHover]
    /\ lastHoverWord = [p \in Overlays |-> EmptyString]
    /\ hoverTip = NoHover

(***************************************************************************)
(* The units called directly: WordCache.get, WordCache.set and             *)
(* getWordTooltip with any word and lexicon.                               *)
(***************************************************************************)
CallGet(k) ==
    /\ LET got == WordCacheGet(cache, k)
       IN  /\ cache' = got.map
           /\ ops' = <<OpGet(k, got.hit)>> \o EvictOps(cache, got.map)
    /\ ret' = RetNone
    /\ UNCHANGED <<limit, pending, firstTip, hoverVars, uploadVars, serverVars, pureVars>>

CallSet(k, v) ==
    /\ cache' = WordCacheSet(cache, k, v)
    /\ ops' = <<OpSet(k, v)>> \o EvictOps(cache, cache')
    /\ ret' = RetNone
    /\ UNCHANGED <<limit, pending, firstTip, hoverVars, uploadVars, serverVars, pureVars>>

CallGetWordTooltip(arWord, lex) ==
    LET out == getWordTooltipStart(arWord, lex, cache)
    IN  /\ out.kind = "await" => BagCardinality(pending) < MaxPending
        /\ cache' = out.map
        /\ ops' = out.ops \o EvictOps(cache, out.map)
        /\ ret' = Ret(arWord, out, lex, NoReply, 0)
        /\ pending' = IF out.kind = "await"
                      THEN pending (+) SetToBag({Call(arWord, 0)})
                      ELSE pending
        /\ UNCHANGED <<limit, firstTip, hoverVars, uploadVars, serverVars, pureVars>>

\* "Still hovering same token?"
StillHovering_Always(last, word) == TRUE

StillHovering(last, word) == last = word

\* the await of translateAPI settles: the rest of getWordTooltip, then the rest
\* of the handleEnter that called it
Settle(c, reply) ==
    LET out == getWordTooltipSettle(c.word, reply, cache)
    IN  /\ cache' = out.map
        /\ ops' = out.ops \o EvictOps(cache, out.map)
        /\ ret' = Ret(c.word, out, LexiconEmpty, reply, c.page)
        /\ pending' = pending (-) SetToBag({c})
        /\ hover' = IF c.page \in Overlays /\ ~out.raised
                       /\ StillHovering(lastHoverWord[c.page], c.word)
                    THEN [hover EXCEPT ![c.page] = Shown(out.value, c.word)]
                    ELSE hover
        /\ UNCHANGED <<limit, lexicon, pointer, lastHoverWord, uploadVars, serverVars, pureVars>>

UnitSettle(c, reply) ==
    /\ c.page = 0
    /\ Settle(c, reply)
    /\ UNCHANGED <<firstTip, hoverTip>>

InitUnits == InitResolver /\ InitHover /\ InitUpload /\ InitServer /\ InitTranslate /\ InitPure /\ limit = Limit /\ log = << >>

\* WordCache alone: any sequence of get and set calls, recorded in log
LoggedGet(k) ==
    /\ Len(log) < MaxOps
    /\ CallGet(k)
    /\ log' = log \o CacheOps(ops')

LoggedSet(k, v) ==
    /\ Len(log) < MaxOps
    /\ CallSet(k, v)
    /\ log' = log \o CacheOps(ops')

NextCache ==
    \/ \E k \in CacheKeys : LoggedGet(k)
    \/ \E k \in CacheKeys, v \in UnitValues : LoggedSet(k, v)

SpecCache == InitUnits /\ [][NextCache]_vars

\* WordCache and getWordTooltip called in any order, the translation calls
\* settling in any order
NextUnits ==
    \/ \E k \in CacheKeys : CallGet(k) /\ UNCHANGED log
    \/ \E k \in CacheKeys, v \in UnitValues : CallSet(k, v) /\ UNCHANGED log
    \/ \E w \in UnitWords, lex \in Lexicons :
          CallGetWordTooltip(w, lex) /\ UNCHANGED log
    \/ \E c \in BagToSet(pending), reply \in TranslateReplies :
          UnitSettle(c, reply) /\ UNCHANGED log

SpecUnits == InitUnits /\ [][NextUnits]_vars

(***************************************************************************)
(* The page overlays: useLexicon's load, handleEnter, handleLeave and the  *)
(* settlement of a translation call made by a handleEnter.                 *)
(***************************************************************************)
\* useLexicon: the fetch of /lexicon-lite.json succeeds and setMap(m) runs
LoadLexicon ==
    /\ lexicon = LexiconEmpty
    /\ lexicon' \in HoverLexicons
    /\ ret' = RetNone
    /\ ops' = << >>
    /\ UNCHANGED <<cache, limit, pending, firstTip, pointer, hover, lastHoverWord, hoverTip, log,
                   uploadVars, serverVars, pureVars>>

\* PageOverlay.handleEnter of page p on a word box whose WordText is text
handleEnter(p, text) ==
    LET word == Trim(text)
        out == getWordTooltipStart(word, lexicon, cache)
    IN  /\ pointer = NoPointer
        /\ pointer' = [page |-> p, text |-> text]
        /\ IF word = EmptyString
           THEN /\ hover' = [hover EXCEPT ![p] = NoHover]
                /\ ret' = RetNone
                /\ ops' = << >>
                /\ UNCHANGED <<lastHoverWord, cache, pending, firstTip>>
           ELSE IF lastHoverWord[p] = word /\ hover[p].shown
                   /\ hover[p].text # EmptyString
           THEN /\ hover' = [hover EXCEPT ![p] = Shown(hover[p].text, hover[p].word)]
                /\ ret' = RetNone
                /\ ops' = << >>
                /\ UNCHANGED <<lastHoverWord, cache, pending, firstTip>>
           ELSE /\ out.kind = "await" => BagCardinality(pending) < MaxPending
                /\ lastHoverWord' = [lastHoverWord EXCEPT ![p] = word]
                /\ cache' = out.map
                /\ ops' = out.ops \o EvictOps(cache, out.map)
                /\ ret' = Ret(word, out, lexicon, NoReply, p)
                /\ firstTip' = FirstTipAfter(cache, out.map, FALSE, word, EmptyString)
                /\ IF out.kind = "await"
                   THEN /\ pending' = pending (+) SetToBag({Call(word, p)})
                        /\ hover' = [hover EXCEPT ![p] = Shown(word, word)]
                   ELSE /\ pending' = pending
                        /\ hover' = [hover EXCEPT ![p] =
                                        IF StillHovering(word, word)
                                        THEN Shown(out.value, word)
                                        ELSE Shown(word, word)]
        /\ UNCHANGED <<limit, lexicon, hoverTip, log, uploadVars, serverVars, pureVars>>

\* PageOverlay.handleLeave of the page the pointer is on
handleLeave ==
    /\ pointer # NoPointer
    /\ hover' = [hover EXCEPT ![pointer.page] = NoHover]
    /\ pointer' = NoPointer
    /\ ret' = RetNone
    /\ ops' = << >>
    /\ UNCHANGED <<cache, limit, pending, firstTip, lexicon, lastHoverWord, hoverTip, log,
                   uploadVars, serverVars, pureVars>>

\* the translation call of a handleEnter settles
HoverSettle(c, reply) ==
    /\ c.page \in Overlays
    /\ Settle(c, reply)
    /\ firstTip' = FirstTipAfter(cache, cache',
                                 ret'.kind = "translated"
                                     /\ translateAPI(reply).text # EmptyString,
                                 c.word, ret'.value)
    /\ UNCHANGED <<log, hoverTip>>

Init == InitResolver /\ InitHover /\ InitUpload /\ InitServer /\ InitTranslate /\ InitPure /\ limit = HoverLimit /\ log = << >>

Next ==
    \/ LoadLexicon
    \/ \E p \in Overlays, text \in BoxTexts : handleEnter(p, text)
    \/ handleLeave
    \/ \E c \in BagToSet(pending), reply \in HoverReplies : HoverSettle(c, reply)

Spec == Init /\ [][Next]_vars

(***************************************************************************)
(* The DOCX view: the onHover handler handleDocx gives to the word spans,  *)
(* and the settlement of a translation call it made.                       *)
(***************************************************************************)
\* the words of the spans: the matches of [0600-06FF]+
DocxWords == {WordA, WordT}

\* a getWordTooltip call made by onHover
DocxCall(word) == Call(word, 3)

\* gloss || word
GlossOrWord(gloss, word) == IF gloss # EmptyString THEN gloss ELSE word

\* setHoverTip({ text: gloss || word, ... }) after the await
DocxTipAfterSettle(c, tip) == Shown(tip, c.word)

\* mouseenter on the span of word: onHover(e, word), up to the await of
\* translateAPI or, when getWordTooltip makes no call, to its end
onHover(word) ==
    LET out == getWordTooltipStart(word, lexicon, cache)
    IN  /\ pointer = NoPointer
        /\ out.kind = "await" => BagCardinality(pending) < MaxPending
        /\ pointer' = [page |-> 3, text |-> word]
        /\ cache' = out.map
        /\ ops' = out.ops \o EvictOps(cache, out.map)
        /\ ret' = Ret(word, out, lexicon, NoReply, 3)
        /\ firstTip' = FirstTipAfter(cache, out.map, FALSE, word, EmptyString)
        /\ IF out.kind = "await"
           THEN /\ pending' = pending (+) SetToBag({DocxCall(word)})
                /\ hoverTip' = Shown(word, word)
           ELSE /\ pending' = pending
                /\ hoverTip' = Shown(GlossOrWord(out.value, word), word)
        /\ UNCHANGED <<limit, lexicon, hover, lastHoverWord, log, uploadVars, serverVars,
                       pureVars>>

\* mouseleave on a span: onHover(null, null)
onHoverLeave ==
    /\ pointer # NoPointer
    /\ pointer' = NoPointer
    /\ hoverTip' = NoHover
    /\ ret' = RetNone
    /\ ops' = << >>
    /\ UNCHANGED <<cache, limit, pending, firstTip, lexicon, hover, lastHoverWord, log,
                   uploadVars, serverVars, pureVars>>

\* the translation call of an onHover settles: the rest of getWordTooltip and
\* of onHover
DocxSettle(c, reply) ==
    /\ c = DocxCall(c.word)
    /\ Settle(c, reply)
    /\ hoverTip' = DocxTipAfterSettle(c, GlossOrWord(ret'.value, c.word))
    /\ firstTip' = FirstTipAfter(cache, cache',
                                 ret'.kind = "translated"
                                     /\ translateAPI(reply).text # EmptyString,
                                 c.word, ret'.value)
    /\ UNCHANGED log

NextDocx ==
    \/ LoadLexicon
    \/ \E word \in DocxWords : onHover(word)
    \/ onHoverLeave
    \/ \E c \in BagToSet(pending), reply \in HoverReplies : DocxSettle(c, reply)

SpecDocx == Init /\ [][NextDocx]_vars

\* the uploads: files chosen at any time, requests settling in any order
NextUpload ==
    \/ \E r \in RunIds, file \in Files, settings \in Settings :
          handleFile(r, file, settings)
    \/ \E op \in net : \E res \in Results(op.kind) : Settled(op, res)
    \/ \E r \in RunIds : OcrTimeout(r)

SpecUpload == Init /\ [][NextUpload]_vars

\* the OCR proxy: one request after another, the engines replying in any way
NextOcr ==
    \/ \E req \in Requests : Receive(req)
    \/ \E reply \in EngineReplies : Engine2Settles(reply)
    \/ \E reply \in EngineReplies : Engine1Settles(reply)

SpecOcr == Init /\ [][NextOcr]_vars

\* the two proxies, each serving one request after another
NextTranslate ==
    \/ \E req \in TranslateRequests : TranslateReceive(req)
    \/ \E reply \in BackendReplies : LibreSettles(reply)
    \/ \E reply \in BackendReplies : MyMemorySettles(reply)

SpecApi == Init /\ [][NextOcr \/ NextTranslate]_vars

\* the pure functions, called with any input
NextPure ==
    \/ CallLayout
    \/ CallOcrWords
    \/ CallSynth
    \/ CallStripDiacritics
    \/ CallNormalizeArabic
    \/ CallSafeIsArabicString
    \/ Return

SpecPure == Init /\ [][NextPure]_vars

(***************************************************************************)
(* Claims about the units.                                                 *)
(***************************************************************************)
NoDuplicateKeys(m) == \A i, j \in 1..Len(m) : m[i].key = m[j].key => i = j

\* C1: after any sequence of WordCache.get and WordCache.set calls, also those
\* made by interleaved pending getWordTooltip calls, the cache holds at most
\* Limit entries and each key at most once.
C1_CacheBounded == Len(cache) <= limit /\ NoDuplicateKeys(cache)

\* a resolution stored its translation in a full cache, evicting an entry,
\* while another resolution was still pending
C1_Witness ==
    /\ ret.kind = "translated"
    /\ HasOp(ops, "evict")
    /\ Len(cache) = Limit
    /\ BagCardinality(pending) >= 1

\* the position in the log of the last touch of key k: its own set, an
\* overwriting set, or a get that hit it (0: never touched)
IsTouch(entry, k) ==
    entry.key = k /\ (entry.op = "set" \/ (entry.op = "get" /\ entry.hit))
LastTouch(l, k) ==
    LET touches == {i \in 1..Len(l) : IsTouch(l[i], k)}
    IN  IF touches = {} THEN 0 ELSE CHOOSE i \in touches : \A j \in touches : j <= i

LogSets(n) == [i \in 1..n |-> OpSet(KeyWord(i), GlossR)]
\* set 1..Limit+1
FillLog == LogSets(Limit + 1)
\* set 1..Limit, get 1, set Limit+1
RecencyLog ==
    LogSets(Limit) \o <<OpGet(KeyWord(1), TRUE), OpSet(KeyWord(Limit + 1), GlossR)>>

C2_Step ==
    (/\ Len(log') = Len(log) + 1
     /\ log'[Len(log')].op = "set"
     /\ ~MapHas(cache, log'[Len(log')].key)
     /\ Len(cache) = Limit)
    => \E i \in 1..Len(cache) :
          /\ \A j \in 1..Len(cache) :
                j # i => LastTouch(log, cache[i].key) < LastTouch(log, cache[j].key)
          /\ cache' = Append(MapDelete(cache, cache[i].key),
                             [key |-> log'[Len(log')].key, val |-> log'[Len(log')].val])

C2_Scenarios ==
    /\ log = FillLog =>
          MapKeys(cache) = [i \in 1..Limit |-> KeyWord(i + 1)]
    /\ log = RecencyLog =>
          /\ ~MapHas(cache, KeyWord(2))
          /\ MapHas(cache, KeyWord(1))
          /\ MapHas(cache, KeyWord(Limit + 1))
          /\ Len(cache) = Limit

\* C2: a set of an absent key into a full cache removes exactly one entry, the
\* one whose last touch is the oldest; Limit+1 distinct sets evict the first
\* key, and sets of 1..Limit, a get of 1 and a set of Limit+1 evict key 2.
C2_EvictsLeastRecentlyTouched == [][C2_Step /\ C2_Scenarios']_vars

C2_Witness == log = RecencyLog /\ ~MapHas(cache, KeyWord(2))

\* the gloss text of the first of the four candidates, in the order raw,
\* diacritic-stripped, letter-normalized, stripped-then-normalized, that is a
\* key of lex
HitsLexicon(w, lex) ==
    \/ w \in DOMAIN lex
    \/ stripDiacritics(w) \in DOMAIN lex
    \/ normalizeArabic(w) \in DOMAIN lex
    \/ normalizeArabic(stripDiacritics(w)) \in DOMAIN lex
FirstMatch(w, lex) ==
    IF w \in DOMAIN lex THEN w
    ELSE IF stripDiacritics(w) \in DOMAIN lex THEN stripDiacritics(w)
    ELSE IF normalizeArabic(w) \in DOMAIN lex THEN normalizeArabic(w)
    ELSE normalizeArabic(stripDiacritics(w))

IsStart(r) == r.kind \in {"blank", "lexicon", "cache", "await"}
IsSettle(r) == r.kind \in {"translated", "fallback"}

ReturnsFirstGloss ==
    /\ ret.kind = "lexicon"
    /\ ret.value = GlossText(ret.lex[FirstMatch(ret.word, ret.lex)])
    /\ ~ret.raised
    /\ ops = << >>

\* C3 as stated: a call whose word has a candidate among the lexicon's keys
\* returns the first matching candidate's glosses and makes no cache read, no
\* cache write and no translation call.
C3_AsStated ==
    (IsStart(ret) /\ HitsLexicon(ret.word, ret.lex)) => ReturnsFirstGloss

\* C3 amended: the same for a word that is not blank.
C3_LexiconHitNonBlank ==
    (IsStart(ret) /\ ~IsBlank(ret.word) /\ HitsLexicon(ret.word, ret.lex))
        => ReturnsFirstGloss

\* the raw word misses, the stripped and the normalized candidates both hit:
\* the stripped one's gloss is returned, with entries in the cache
C3_Witness ==
    /\ ret.kind = "lexicon"
    /\ ret.word \notin DOMAIN ret.lex
    /\ stripDiacritics(ret.word) \in DOMAIN ret.lex
    /\ normalizeArabic(ret.word) \in DOMAIN ret.lex
    /\ ret.value = GlossR
    /\ Len(cache) > 0
    /\ BagCardinality(pending) > 0

\* C5: when the translation call fails (the fetch rejects, the status is not
\* OK, or the body is no JSON), getWordTooltip returns the raw word, raises
\* nothing and leaves the cache as it was.
C5_FailureFallsBack ==
    [][ret'.reply.kind \in {"reject", "http", "nojson"}
          => /\ ret'.kind = "fallback"
             /\ ret'.value = ret'.word
             /\ ~ret'.raised
             /\ cache' = cache
             /\ ops' = << >>]_vars

C5_Witness ==
    /\ ret.reply.kind = "http"
    /\ ret.value = ret.word
    /\ Len(cache) > 0

(***************************************************************************)
(* Claims about the resolver under the page overlays.                      *)
(***************************************************************************)
TranslatedText(r) == translateAPI(r.reply).text

C4_Translates ==
    \* absent from the lexicon and not in the cache: a translation call is made
    /\ (IsStart(ret) /\ ~IsBlank(ret.word) /\ ~HitsLexicon(ret.word, ret.lex)
            /\ ops[1] = OpGet(ret.word, FALSE))
          => (ret.kind = "await" /\ ops = <<OpGet(ret.word, FALSE), OpTranslate(ret.word)>>)
    \* the call succeeds with a non-empty text: it is returned and stored
    /\ (IsSettle(ret) /\ ~translateAPI(ret.reply).threw
            /\ TranslatedText(ret) # EmptyString)
          => /\ ret.value = TranslatedText(ret)
             /\ ~ret.raised
             /\ Len(cache) > 0
             /\ cache[Len(cache)] = [key |-> ret.word, val |-> TranslatedText(ret)]

\* a resolution of a word that is absent from the lexicon and has an entry in
\* the cache
ResolvedCached ==
    /\ IsStart(ret) /\ ~IsBlank(ret.word) /\ ~HitsLexicon(ret.word, ret.lex)
    /\ MapHas(cache, ret.word)

PointerWord == Trim(pointer.text)

\* a translation call made for a word of the page the pointer is on settles
\* while the pointer is on another word of that page
StaleSettle ==
    /\ IsSettle(ret')
    /\ pointer.page # 0
    /\ ret'.page = pointer.page
    /\ PointerWord # EmptyString
    /\ ret'.word # PointerWord

\* C6: when the pointer went from word A to another word B of the same page
\* before A's resolution completes, that completion leaves the displayed
\* tooltip as it is: B's placeholder or B's resolved text.
C6_StaleHoverSuppressed ==
    [][StaleSettle =>
          /\ hover'[pointer.page] = hover[pointer.page]
          /\ hover[pointer.page].shown
          /\ hover[pointer.page].word = PointerWord]_vars

\* A's translation has just arrived while the pointer is on B, whose
\* placeholder is displayed
C6_Witness ==
    /\ ret.kind = "translated"
    /\ pointer.page # 0
    /\ ret.page = pointer.page
    /\ PointerWord # EmptyString
    /\ ret.word # PointerWord
    /\ hover[pointer.page] = Shown(PointerWord, PointerWord)

\* C7 as stated: the completion of a resolution for word A, when the pointer is
\* no longer over A (it is over no word, or over a word of another page),
\* makes no tooltip for A visible.
C7_AsStated ==
    [][(/\ IsSettle(ret')
        /\ ret'.page \in Overlays
        /\ ~(pointer.page = ret'.page /\ PointerWord = ret'.word))
       => ~(hover'[ret'.page].shown /\ hover'[ret'.page].word = ret'.word)]_vars

\* the render and OCR requests of invocation r that are in flight
InFlight(r) == {op \in net : op.run = r /\ op.kind \in {"render", "ocr"}}

\* C8 as stated: at most one page render or OCR request of an upload is in
\* flight at any time.  The code breaks it: the timer of ocrPageViaServerless
\* ends page i's pipeline without aborting the fetch, and page i+1's render and
\* OCR request start while page i's OCR request is still in flight.
C8_AsStated == \A r \in RunIds : Cardinality(InFlight(r)) <= 1

\* the records of pages 1..n of invocation r, in page order
IsPrefixOf(ps, r, n) ==
    /\ Len(ps) = n
    /\ \A k \in 1..n : ps[k].run = r /\ ps[k].page = k

\* C9: while a single upload is running, the visible page list is exactly the
\* records of the pages whose pipeline has finished, in page order: pages
\* 1..i-1 while page i is in its pipeline, and all the pages once the loop has
\* ended.
C9_IncrementalAppend ==
    \A r \in RunIds :
        runs[r].alone =>
            /\ runs[r].pc \in {"getPage", "render", "text", "ocr"} =>
                  IsPrefixOf(pages, r, runs[r].i - 1)
            /\ runs[r].pc = "done" /\ runs[r].i >= 1 => IsPrefixOf(pages, r, runs[r].i)

\* page 2 has started and the record of page 1 is visible
C9_Witness ==
    \E r \in RunIds :
        /\ runs[r].alone
        /\ runs[r].pc = "getPage"
        /\ runs[r].i = 2
        /\ Len(pages) = 1

\* C10 as stated: from the moment a new upload begins, the visible page list
\* never contains a record produced by an earlier upload's pipeline.  The code
\* breaks it: an earlier invocation of handlePdf that is still running keeps
\* appending its records after the new invocation's setPages([]).
C10_AsStated == \A k \in 1..Len(pages) : pages[k].run = latest

(***************************************************************************)
(* Claims about the page pipeline of an upload.                            *)
(***************************************************************************)
\* the invocation that awaits op goes on with the result res in this step
Resumes(op, res) == Awaits(op.run, op) /\ Settled(op, res)

\* the step ends page op.page of invocation op.run with the record rec: the
\* record is appended and the loop goes on to the next page, or ends after
\* the last one
EndsPageWith(op, rec) ==
    LET r == op.run
    IN  /\ pages' = Append(pages, rec)
        /\ IF runs[r].i < runs[r].limit
           THEN /\ runs'[r].pc = "getPage"
                /\ runs'[r].i = runs[r].i + 1
                /\ Op(r, runs[r].i + 1, "getPage") \in net'
           ELSE runs'[r].pc = "done"

\* an upload that ran alone and got through getDocument has ended with a
\* record for every page up to its limit and no error reported
AllPagesAppended ==
    \A r \in RunIds :
        (runs[r].alone /\ runs[r].pc = "done" /\ runs[r].i >= 1) =>
            /\ runs[r].i = runs[r].limit
            /\ IsPrefixOf(pages, r, runs[r].limit)
            /\ globalError = ""

FailedPageStep ==
    \A op \in net : \A res \in Results(op.kind) :
        (op.kind \in {"getPage", "render", "text"} /\ ~res.ok /\ Resumes(op, res)) =>
            /\ \E rec \in {pages'[k] : k \in 1..Len(pages')} :
                  /\ rec.run = op.run /\ rec.page = op.page
                  /\ rec.error # ""
                  /\ EndsPageWith(op, rec)
            /\ globalError' = globalError
            /\ busy' = (busy /\ runs[op.run].i < runs[op.run].limit)

\* C11: when getPage, the render or the text extraction of page i throws, a
\* record for page i with an error marker is appended, the loop goes on to
\* page i+1 (every page up to the limit gets its record), and no upload error
\* is reported.
C11_PageFailureContained == [][FailedPageStep /\ AllPagesAppended']_vars

\* a two-page upload has ended: page 1 failed, page 2 did not
C11_Witness ==
    \E r \in RunIds :
        /\ runs[r].alone /\ runs[r].pc = "done" /\ runs[r].limit = 2
        /\ Len(pages) = 2
        /\ pages[1].error # "" /\ pages[2].error = ""
        /\ globalError = ""

\* the target-script runs are at least 20% of the text runs and the layout
\* made at least 3 word boxes
Usable(res) == 5 * res.arabic >= res.items /\ res.words >= 3

\* the step ends the page in mode text, with no reason and no OCR request
EndsInText(op) ==
    /\ \E rec \in {pages'[k] : k \in 1..Len(pages')} :
          /\ rec.run = op.run /\ rec.page = op.page
          /\ rec.mode = "text" /\ rec.reason = "" /\ rec.error = ""
          /\ EndsPageWith(op, rec)
    /\ Op(op.run, op.page, "ocr") \notin net'

\* the step makes the OCR request of the page and appends nothing
RequestsOcr(op) ==
    /\ Op(op.run, op.page, "ocr") \in net'
    /\ runs'[op.run].pc = "ocr"
    /\ pages' = pages

\* whatever ends the await of the OCR request (a reply, a failure or the
\* timer) ends the page with a record in mode ocr
OcrEndsInOcr ==
    \A r \in RunIds :
        (runs[r].pc = "ocr" /\ <<runs'[r].pc, runs'[r].i>> # <<"ocr", runs[r].i>>) =>
            /\ Len(pages') = Len(pages) + 1
            /\ pages'[Len(pages')].run = r
            /\ pages'[Len(pages')].page = runs[r].i
            /\ pages'[Len(pages')].mode = "ocr"

\* C12 as stated: with Force OCR off, a rendered page ends in mode text with an
\* empty reason and without an OCR request if and only if its text runs are
\* usable; in every other case an OCR request is made and the record ends in
\* mode ocr.  It fails when getTextContent throws: no OCR request is made and
\* the record has mode none.
C12_AsStated ==
    [][/\ \A op \in net : \A res \in Results(op.kind) :
             (op.kind = "text" /\ ~runs[op.run].forceOcr /\ Resumes(op, res)) =>
                 IF res.ok /\ Usable(res) THEN EndsInText(op) ELSE RequestsOcr(op)
       /\ OcrEndsInOcr]_vars

\* C12 amended: the same for a page whose text extraction returned.
C12_TextOrOcr ==
    [][/\ \A op \in net : \A res \in Results(op.kind) :
             (op.kind = "text" /\ ~runs[op.run].forceOcr /\ res.ok /\ Resumes(op, res)) =>
                 IF Usable(res) THEN EndsInText(op) ELSE RequestsOcr(op)
       /\ OcrEndsInOcr]_vars

\* an upload without Force OCR: page 1 ended in mode text, page 2 in mode ocr
C12_Witness ==
    \E r \in RunIds :
        /\ runs[r].alone /\ ~runs[r].forceOcr /\ runs[r].pc = "done"
        /\ Len(pages) = 2
        /\ pages[1].mode = "text" /\ pages[1].reason = ""
        /\ pages[2].mode = "ocr"

\* no text extraction is in flight for an upload with Force OCR on
NoTextWhenForced == \A op \in net : op.kind = "text" => ~runs[op.run].forceOcr

\* with Force OCR on, the await of a successful render is followed by the OCR
\* request
ForcedRenderRequestsOcr ==
    \A op \in net : \A res \in Results(op.kind) :
        (op.kind = "render" /\ runs[op.run].forceOcr /\ res.ok /\ Resumes(op, res))
            => RequestsOcr(op)

\* the records of the rendered pages of uploads with Force OCR on
ForcedRecords ==
    {pages[k] : k \in {j \in 1..Len(pages) : runs[pages[j].run].forceOcr /\ pages[j].img}}

\* C13 as stated: with Force OCR on, no text extraction is attempted, every
\* rendered page makes an OCR request and ends in mode ocr, and its reason
\* says that OCR was forced.  It fails when the OCR request fails or times
\* out: the reason is then the OCR error.
C13_AsStated ==
    [][/\ ForcedRenderRequestsOcr
       /\ OcrEndsInOcr
       /\ NoTextWhenForced'
       /\ \A rec \in ForcedRecords' :
             rec.mode = "ocr" /\ rec.reason = "Force OCR enabled."]_vars

\* the reason of the record a forced page ends with
ForcedReason ==
    /\ \A op \in net : \A res \in Results(op.kind) :
          (op.kind = "ocr" /\ runs[op.run].reason = "forced-ocr" /\ Resumes(op, res)) =>
              pages'[Len(pages')].reason =
                  IF res.ok THEN "Force OCR enabled." ELSE "OCR error: " \o res.err
    /\ \A r \in RunIds :
          (runs[r].reason = "forced-ocr" /\ OcrTimeout(r)) =>
              pages'[Len(pages')].reason = "OCR error: Timeout"

\* C13 amended: ... and the record's reason says that OCR was forced when the
\* OCR request succeeded; when it failed or timed out the reason is the OCR
\* error.
C13_ForcedOcr ==
    [][/\ ForcedRenderRequestsOcr
       /\ OcrEndsInOcr
       /\ ForcedReason
       /\ NoTextWhenForced'
       /\ \A rec \in ForcedRecords' : rec.mode = "ocr"]_vars

\* a forced upload of two pages: the OCR of page 1 succeeded, that of page 2
\* did not
C13_Witness ==
    \E r \in RunIds :
        /\ runs[r].alone /\ runs[r].forceOcr /\ runs[r].pc = "done"
        /\ Len(pages) = 2
        /\ pages[1].mode = "ocr" /\ pages[1].reason = "Force OCR enabled."
        /\ pages[2].mode = "ocr" /\ pages[2].reason # "Force OCR enabled."

(***************************************************************************)
(* Claims about the OCR proxy.                                             *)
(***************************************************************************)
\* engine 2 has answered
FirstKnown == proxy.first # NoResp
\* the handler has replied after calling the engines
CascadeDone == proxy.pc = "replied" /\ proxy.calls # << >>

Noted(resp, note) == Response(200, "", [resp EXCEPT !.note = note])

\* C14 as stated: engine 2 is called first; engine 1 is called if and only if
\* engine 2's response has no overlay words; the reply is engine 1's response
\* when it has strictly more overlay words than engine 2's, and engine 2's
\* otherwise, with the note naming the engine used.  The code breaks it for an
\* engine 2 body whose count is not a number (engine 1's words are dropped)
\* and for one that is no object (the note assignment throws).
C14_AsStated ==
    /\ proxy.calls \in {<< >>, <<2>>, <<2, 1>>}
    /\ FirstKnown => (proxy.calls = <<2, 1>> <=> Words(proxy.first) = 0)
    /\ CascadeDone =>
          proxy.reply =
              IF proxy.calls = <<2>> THEN Noted(proxy.first, "Used OCR Engine 2.")
              ELSE IF Words(proxy.second) > Words(proxy.first)
              THEN Noted(proxy.second, "Used OCR Engine 1 (more overlay words).")
              ELSE Noted(proxy.first, "Engine 2 kept (Engine 1 not better).")

Fails(reply) == reply.kind \in {"timeout", "reject"}

\* C15: a timeout or a transport failure of an engine call becomes a response
\* with zero overlay words and no exception; after such a failure of engine 2,
\* engine 1 is called with a timer of its own; when engine 1 fails too, the
\* handler replies 200 with engine 2's error response.
C15_EngineFailureContained ==
    [][\A reply \in EngineReplies :
          Fails(reply) =>
              /\ \A e \in {1, 2} :
                    /\ countOverlay(callEngine(e, reply)) = Num(0)
                    /\ callEngine(e, reply).overlay # "raised"
              /\ Engine2Settles(reply) =>
                    /\ proxy'.pc = "engine1"
                    /\ proxy'.timer = 1
                    /\ proxy'.calls = <<2, 1>>
              /\ (Engine1Settles(reply) /\ proxy.first.errored \in {"timeout", "fetch failed"}) =>
                    /\ proxy'.pc = "replied"
                    /\ proxy'.reply =
                          Noted(proxy.first, "Engine 2 kept (Engine 1 not better).")]_vars

\* engine 2 timed out, engine 1's request failed, and the handler replied 200
C15_Witness ==
    /\ CascadeDone
    /\ proxy.first.errored = "timeout"
    /\ proxy.second.errored = "fetch failed"
    /\ proxy.reply.status = 200
    /\ proxy.reply.resp.errored = "timeout"

\* a response with a non-success status or a malformed body
Malformed(resp) ==
    resp.errored # "" \/ ~resp.object \/ resp.overlay \in {"badLines", "badWords"}

\* the overlay words of a response when the malformed ones count as zero
EffectiveWords(resp) == IF Malformed(resp) THEN 0 ELSE Words(resp)

\* C16 as stated: a response with a non-success status or a malformed body
\* counts as zero overlay words in the cascade decision and never crashes the
\* cascade.  The code breaks it: the words of the body of a non-success
\* response are counted, a body whose count is not a number beats every
\* engine 1 response, and a body that is no object makes the note assignment
\* throw.
C16_AsStated ==
    /\ (FirstKnown /\ Malformed(proxy.first)) => proxy.calls = <<2, 1>>
    /\ (CascadeDone /\ proxy.calls = <<2, 1>>
            /\ (Malformed(proxy.first) \/ Malformed(proxy.second))) =>
          proxy.reply =
              IF EffectiveWords(proxy.second) > EffectiveWords(proxy.first)
              THEN Noted(proxy.second, "Used OCR Engine 1 (more overlay words).")
              ELSE Noted(proxy.first, "Engine 2 kept (Engine 1 not better).")

\* the reasons of the pages whose OCR request succeeded
SuccessReasons ==
    {OcrReason(x) : x \in {"", "no-words", "embedded-glyphs", "forced-ocr"}}

\* C17 as stated: when both engines have failed for a page, its record has
\* mode ocr and no OCR words, its reason is a diagnostic of the engine failure,
\* and the loop goes on.  The code breaks it: the proxy replies 200 with the
\* error object, the client reads no error from it, and the reason is the one
\* of a successful OCR.
C17_AsStated ==
    [][\A op \in net :
          (op.kind = "ocr" /\ Resumes(op, ClientOcrResult(BothEnginesFailed))) =>
              \E rec \in {pages'[k] : k \in 1..Len(pages')} :
                  /\ rec.run = op.run /\ rec.page = op.page
                  /\ rec.mode = "ocr"
                  /\ rec.boxCount = BoxCount(op.run, 0)
                  /\ rec.reason \notin SuccessReasons
                  /\ EndsPageWith(op, rec)]_vars

(***************************************************************************)
(* Claims about the word boxes and the normalizers.                        *)
(***************************************************************************)
Positive(x) == x.def /\ x.num > 0 /\ x.den > 0

\* C18 as stated: every box of an overlay, laid out from the text layer,
\* converted from an OCR response or made as a test box, has Width > 0 and
\* Height > 0.  The code breaks it for the OCR words: their fields are copied
\* as the engine sent them, missing or zero.
C18_AsStated ==
    \A i \in 1..Len(calc.overlay) :
        Positive(calc.overlay[i].Width) /\ Positive(calc.overlay[i].Height)

\* the run of a layout call: its pieces, its width and its boxes
Pieces == SplitWords(calc.item.str)
RunWidth == calc.item.width
TotalChars == SumLen(Pieces)
LaidOut == calc.fn = "layout" /\ RunWidth > 0 /\ Len(calc.overlay) >= 2

RECURSIVE SumWidths(_)
SumWidths(boxes) ==
    IF boxes = << >> THEN Frac(0, 1)
    ELSE PlusFrac(Head(boxes).Width, SumWidths(Tail(boxes)))

\* a / b = c / d, and a / b <= c / d
SameFrac(a, c) == a.num * c.den = c.num * a.den
AtMostFrac(a, c) == a.num * c.den <= c.num * a.den

\* the share of piece i is at least the minimum width
FullShare(i) == RunWidth * Len(Pieces[i]) >= MinBoxWidth * TotalChars

\* C19 as stated: for every run of width W > 0 that splits into several
\* pieces, the widths of its boxes are proportional to the pieces' character
\* counts and sum to at most W.
C19_AsStated ==
    LaidOut =>
        /\ \A i, j \in 1..Len(calc.overlay) :
              calc.overlay[i].Width.num * calc.overlay[j].Width.den * Len(Pieces[j])
                = calc.overlay[j].Width.num * calc.overlay[i].Width.den * Len(Pieces[i])
        /\ AtMostFrac(SumWidths(calc.overlay), Frac(RunWidth, 1))

\* C19: a run of width W > 0 that splits into several pieces gets one box a
\* piece; the width of a piece is its share W * chars / totalChars when the
\* share is at least 3 and is 3 otherwise; when every share is at least 3 the
\* widths sum to W.
C19_ProportionalAboveMinimum ==
    LaidOut =>
        /\ Len(calc.overlay) = Len(Pieces)
        /\ \A i \in 1..Len(Pieces) :
              IF FullShare(i)
              THEN SameFrac(calc.overlay[i].Width, Frac(RunWidth * Len(Pieces[i]), TotalChars))
              ELSE SameFrac(calc.overlay[i].Width, Frac(MinBoxWidth, 1))
        /\ (\A i \in 1..Len(Pieces) : FullShare(i))
              => SameFrac(SumWidths(calc.overlay), Frac(RunWidth, 1))

\* a run of two pieces of different lengths, every share above the minimum
C19_Witness ==
    /\ LaidOut
    /\ \A i \in 1..Len(Pieces) : FullShare(i)
    /\ \E i, j \in 1..Len(Pieces) : Len(Pieces[i]) > Len(Pieces[j])
    /\ \E i, j \in 1..Len(Pieces) :
          ~AtMostFrac(calc.overlay[i].Width, calc.overlay[j].Width)

\* C20: stripDiacritics and normalizeArabic are idempotent: for every string
\* over ASCII, whitespace, the Arabic letters with their variants, the
\* tatweel and the diacritics, applying the function to its own result
\* gives the result again.
C20_Idempotent ==
    calc.fn \in {"stripDiacritics", "normalizeArabic"} => calc.twice = calc.out

\* normalizeArabic has replaced a letter variant and dropped a tatweel and a
\* code unit outside the Arabic block
C20_Witness ==
    /\ calc.fn = "normalizeArabic"
    /\ calc.input = <<ALEF_MAKSURA, TATWEEL, LATIN_R>>
    /\ calc.out = <<YEH>>
    /\ calc.twice = <<YEH>>

\* C21 as stated: stripDiacritics, normalizeArabic and safeIsArabicString
\* never fail, and give for null and for undefined what they give for the
\* empty string.  The code breaks it: normalizeArabic(null) throws.
C21_AsStated ==
    calc.fn \in {"stripDiacritics", "normalizeArabic", "safeIsArabicString"} =>
        /\ ~calc.threw
        /\ calc.arg \in {"null", "undefined"} =>
              /\ calc.fn = "stripDiacritics" => calc.out = stripDiacritics(<< >>)
              /\ calc.fn = "normalizeArabic" => calc.out = normalizeArabic(<< >>)
              /\ calc.fn = "safeIsArabicString" => calc.primary = safeIsArabicString(<< >>)

\* C22 as stated: the try path and the catch path of safeIsArabicString give
\* the same result for every string of ASCII and common Arabic text.  The
\* code breaks it: the marks and the tatweel are in [0600-06FF] but not of
\* the script.
C22_AsStated ==
    (calc.fn = "safeIsArabicString" /\ calc.arg = "string") =>
        calc.primary = calc.fallback

(***************************************************************************)
(* Claims about rejected files, repeated hovers and the proxies.           *)
(***************************************************************************)
\* neither the name nor the type of the file is one of PDF or DOCX
Unsupported(file) ==
    /\ file.ext \notin {"pdf", "docx"}
    /\ file.type \notin
          {"application/pdf",
           "application/vnd.openxmlformats-officedocument.wordprocessingml.document"}

\* the step is handleFile of such a file
RejectsFile(r) ==
    \E file \in Files, settings \in Settings :
        Unsupported(file) /\ handleFile(r, file, settings)

\* C23: handleFile of a file that is neither PDF nor DOCX sets the error
\* message, starts no request of the PDF or of the DOCX pipeline (no render,
\* no OCR call), makes no translation call and ends with busy = false.
C23_UnsupportedRejected ==
    [][\A r \in RunIds :
          RejectsFile(r) =>
              /\ globalError' = "Unsupported file type. Please upload PDF or DOCX."
              /\ busy' = FALSE
              /\ runs'[r].pc = "done"
              /\ net' = net
              /\ \A op \in net' : op.run # r
              /\ pending' = pending
              /\ ops' = ops]_vars

\* a text file has been rejected while the requests of an earlier upload are
\* in flight
C23_Witness ==
    /\ globalError = "Unsupported file type. Please upload PDF or DOCX."
    /\ busy = FALSE
    /\ runs[2].pc = "done"
    /\ latest = 2
    /\ net # {}
    /\ \A op \in net : op.run = 1

\* the translation calls pending for a word, whatever overlay made them
PendingFor(b, w) == CopiesIn(Call(w, 1), b) + CopiesIn(Call(w, 2), b)

\* the step is a hover of a word that is in no lexicon entry and not cached
\* while a translation call for it is pending
Rehovers(p, text) ==
    /\ handleEnter(p, text)
    /\ Trim(text) # EmptyString
    /\ LexiconHits(Trim(text), lexicon) = {}
    /\ ~MapHas(cache, Trim(text))
    /\ PendingFor(pending, Trim(text)) >= 1

IssuesAnotherCall(w) ==
    /\ PendingFor(pending', w) = PendingFor(pending, w) + 1
    /\ HasOp(ops', "translate")

\* a translation call settles without a failure: the cache is written and
\* holds the word once
CompletionStores ==
    \A c \in BagToSet(pending), reply \in HoverReplies :
        (HoverSettle(c, reply) /\ ~translateAPI(reply).threw) =>
            /\ HasOp(ops', "set")
            /\ Cardinality({i \in 1..Len(cache') : cache'[i].key = c.word}) = 1

HandlerErrors ==
    {"", "POST only", "Missing base64Image", "Server missing OCRSPACE_API_KEY",
     "SyntaxError", "TypeError", "engine 2", "engine 1"}

LibreThrew == translator.libre.kind \in {"reject", "nojson"}
LibreNotOk == translator.libre.kind = "http"
LibreGaveText ==
    translator.libre.kind \in {"flat", "nested"} /\ translator.libre.text # ""
LibreGaveNoText ==
    translator.libre.kind \in {"null", "other", "flat", "nested"} /\ ~LibreGaveText
LibreSettled == translator.libre.kind # "none"

StaleDocxSettle(c) ==
    /\ \E reply \in HoverReplies : DocxSettle(c, reply)
    /\ pointer.text # c.word

\* C26 as stated: in the DOCX view a resolution that completes after the
\* pointer moved to another word or left all words does not change the
\* displayed tooltip.  The code breaks it: onHover sets the tooltip after the
\* await whatever the pointer is over.
C26_AsStated ==
    [][\A c \in BagToSet(pending) : StaleDocxSettle(c) => hoverTip' = hoverTip]_vars

(***************************************************************************)
(* Claims about the cached values, the page modes and the busy flag.       *)
(***************************************************************************)
\* the value of a cache entry is a translation text that is not empty, or
\* the entry's word, which is not blank
StoredValueOk(e) ==
    /\ e.val # EmptyString
    /\ ~IsBlank(e.key)
    /\ \/ e.val = e.key
       \/ \E reply \in HoverReplies : e.val = translateAPI(reply).text

\* C28: every value the resolver stores in the word cache is a non-empty
\* string, the translation text when it is not empty and the raw word
\* otherwise, and a hover of a word that has a cache entry makes no
\* translation call.
C28_CachedValuesTruthy ==
    [][/\ \A i \in 1..Len(cache') : StoredValueOk(cache'[i])
       /\ \A p \in Overlays, text \in BoxTexts :
             (handleEnter(p, text) /\ MapHas(cache, Trim(text))) =>
                 /\ ~HasOp(ops', "translate")
                 /\ pending' = pending]_vars

\* a translation came back empty, the raw word was stored, and a later hover
\* of the word was answered from the cache
C28_Witness ==
    /\ ret.kind = "cache"
    /\ ret.value = ret.word
    /\ MapHas(cache, ret.word)
    /\ pending = EmptyBag

\* C29: a PageRecord of the PDF pipeline has mode "none" exactly when it
\* carries an error marker, and a record without an error marker has mode
\* "text" or "ocr", also when its OCR request failed or timed out.
C29_ModeNoneIffError ==
    \A k \in 1..Len(pages) :
        /\ pages[k].mode = "none" <=> pages[k].error # ""
        /\ pages[k].error = "" => pages[k].mode \in {"text", "ocr"}

\* a page that failed before its mode was assigned, followed by a page whose
\* OCR request timed out
C29_Witness ==
    /\ Len(pages) = 2
    /\ pages[1].mode = "none" /\ pages[1].error # ""
    /\ pages[2].mode = "ocr" /\ pages[2].error = ""
    /\ pages[2].reason = "OCR error: Timeout"

\* C30: busy is true whenever a handleFile invocation is still in progress,
\* also when a second upload was started before the first one had finished.
C30_AsStated == (\E r \in RunIds : Active(r)) => busy

====
